---- MODULE Spec2Model ----
(***************************************************************************)
(* Model of docker_mount_stress_test/docker_mount_tester.py: one run of    *)
(* main().  In run mode (Spec) a DockerMountTester provisions three        *)
(* containers with bind-mounted temp directories, runs num_samples trials  *)
(* (a host file write or directory creation followed by a poll loop inside *)
(* the container), compiles a report, saves it as JSON, analyses it, and   *)
(* always ends in cleanup().  In analyze mode (AnalyzeSpec) main() loads a *)
(* report file and analyses it.                                            *)
(*                                                                         *)
(* Time is counted in ticks of one poll interval (time.sleep(0.001), 1 ms);*)
(* timeout is the per-trial timeout in the same ticks, and a poll          *)
(* iteration that does not return takes one tick.  A latency is a number   *)
(* of ticks, so latency_ms = latency * 1000 is that number.  The           *)
(* container's answers to exec_run, the outcome of host filesystem calls   *)
(* and the arrival of Ctrl-C are inputs of the environment, chosen with    *)
(* \E.  Ctrl-C arrives at most once, while main() is in its try block.     *)
(***************************************************************************)
EXTENDS Integers, Sequences, FiniteSets, TLC

\* ---------------------------------------------------------------- bounds
MaxSamples == 2        \* num_samples ranges over 0..MaxSamples
MaxTimeout == 2        \* timeout ranges over 1..MaxTimeout ticks
MaxReportSamples == 4  \* analyze mode: a report file has 0..MaxReportSamples samples
MaxLiveSamples == 1    \* termination: runs of 0..MaxLiveSamples trials
MaxLatency == 2        \* analyze mode: their latencies are 0..MaxLatency ms

\* -------------------------------------------------------------- constants
NumEnvironments == 3   \* for i in range(3)

None == "None"     \* Python None, for a name
NoValue == <<>>     \* Python None, for an optional value; <<v>> holds v

\* random.choices(ascii_letters + digits, k=10): two names suffice to let
\* a later trial collide with an artifact an earlier one left behind.
Names == {"n1", "n2"}

\* random.choices(ascii_letters + digits, k=100): the payload, a sequence
\* of alphanumeric characters.
Payloads == {<<"a", "b">>, <<"b", "a">>}

Whitespace == {" ", "\n"}

\* What `cat` inside the container may print while the trial's payload is
\* `content`: the payload, the payload with whitespace around it, the
\* payload truncated, another (stale) payload, nothing.
CatOutputs(content) ==
    {content, content \o <<"\n">>, <<" ">> \o content, SubSeq(content, 1, 1), <<>>}
      \cup (Payloads \ {content})

VARIABLES
    pc,             \* position of main()
    num_samples,    \* self.num_samples
    timeout,        \* self.timeout
    now,            \* time.time()
    self_temp_dirs, \* self.temp_dirs
    self_containers,\* self.containers
    hostDirs,       \* temp directories that exist on the host
    dockerContainers,\* containers that exist in the runtime
    hostFs,         \* artifacts inside the temp directories
    attempted,      \* teardown calls made by cleanup()
    system_info,    \* run_stress_test local
    temp_dirs,      \* run_stress_test local
    containers,     \* run_stress_test local
    samples,        \* run_stress_test local
    timeouts,       \* run_stress_test local
    i,              \* run_stress_test loop index
    trial,          \* the trial in progress (locals of measure_*_latency)
    latency,        \* value returned by measure_*_latency
    results,        \* main's local: the dict run_stress_test returned
    reportFile,     \* content of the report file on disk (a JSON document)
    stats,          \* main's local: the dict analyze_results returned
    raised          \* the exception main() caught, and where it was raised

vars == <<pc, num_samples, timeout, now, self_temp_dirs, self_containers,
          hostDirs, dockerContainers, hostFs, attempted, system_info,
          temp_dirs, containers, samples, timeouts, i, trial, latency,
          results, reportFile, stats, raised>>

\* The locals of measure_write_latency / measure_directory_latency, and a
\* record of what the trial went through: `last` is the kind of reply the
\* last poll iteration got, `verified` whether some iteration found the
\* artifact visible, `cleanup` how the removal of the host artifact went.
NoTrial == [test_type |-> None, env_idx |-> 0, temp_dir |-> 0, container |-> 0,
            name |-> None, content |-> <<>>,
            write_end |-> 0, start_poll |-> 0, last |-> None,
            verified |-> FALSE, cleanup |-> None]

NoRaise == [exc |-> None, at |-> None, done |-> 0]

Range(s) == {s[k] : k \in 1 .. Len(s)}

\* -------------------------------------------------------- pure functions
\* dict.get(key, default)
Get(d, key, default) == IF key \in DOMAIN d THEN d[key] ELSE default

\* str.strip(): leading and trailing whitespace removed.
RECURSIVE LStrip(_)
LStrip(s) ==
    IF s # <<>> /\ Head(s) \in Whitespace THEN LStrip(Tail(s)) ELSE s

RECURSIVE RStrip(_)
RStrip(s) ==
    IF s # <<>> /\ s[Len(s)] \in Whitespace
    THEN RStrip(SubSeq(s, 1, Len(s) - 1))
    ELSE s

Strip(s) == RStrip(LStrip(s))

\* The replies of the runtime to one poll iteration of a File trial:
\* exec_run("test -f ...") raises, or exits 0 or 1; exec_run("cat ...")
\* raises, or exits 0 or 1 with some output.
FileReplies(content) ==
    {[testRaises |-> TRUE, testExit |-> 1, catRaises |-> FALSE, catExit |-> 1, output |-> <<>>],
     [testRaises |-> FALSE, testExit |-> 1, catRaises |-> FALSE, catExit |-> 1, output |-> <<>>],
     [testRaises |-> FALSE, testExit |-> 0, catRaises |-> TRUE, catExit |-> 1, output |-> <<>>],
     [testRaises |-> FALSE, testExit |-> 0, catRaises |-> FALSE, catExit |-> 1, output |-> <<>>]}
      \cup [testRaises : {FALSE}, testExit : {0}, catRaises : {FALSE},
            catExit : {0}, output : CatOutputs(content)]

\* The replies to one poll iteration of a Directory trial.
DirReplies ==
    {[testRaises |-> TRUE, testExit |-> 1],
     [testRaises |-> FALSE, testExit |-> 1],
     [testRaises |-> FALSE, testExit |-> 0]}

\* FileVisible without the comparison of the content: presence is enough.
FileVisibleNoVerify(r, content) ==
    /\ ~r.testRaises
    /\ r.testExit = 0
    /\ ~r.catRaises
    /\ r.catExit = 0

\* FileVisible comparing only as much as was read: a truncated read passes.
FileVisiblePrefix(r, content) ==
    /\ ~r.testRaises
    /\ r.testExit = 0
    /\ ~r.catRaises
    /\ r.catExit = 0
    /\ Strip(r.output) # <<>>
    /\ Len(Strip(r.output)) <= Len(content)
    /\ Strip(r.output) = SubSeq(content, 1, Len(Strip(r.output)))

\* Lines 190-194: the file counts as visible in this iteration.
FileVisible(r, content) ==
    /\ ~r.testRaises
    /\ r.testExit = 0
    /\ ~r.catRaises
    /\ r.catExit = 0
    /\ Strip(r.output) = content

\* Lines 230-231: the directory counts as visible in this iteration.
DirVisible(r) ==
    /\ ~r.testRaises
    /\ r.testExit = 0

\* What a reply of the runtime amounts to, whatever the trial makes of it:
\* a call raised, the artifact is absent, the file is there but cat failed,
\* the content read is the payload exactly ("exact"), the payload with
\* whitespace around it ("padded"), or something else ("mismatch").
FileReplyKind(r, content) ==
    IF r.testRaises THEN "raise"
    ELSE IF r.testExit # 0 THEN "absent"
    ELSE IF r.catRaises THEN "raise"
    ELSE IF r.catExit # 0 THEN "unreadable"
    ELSE IF r.output = content THEN "exact"
    ELSE IF Strip(r.output) = content THEN "padded"
    ELSE "mismatch"

DirReplyKind(r) ==
    IF r.testRaises THEN "raise"
    ELSE IF r.testExit # 0 THEN "absent"
    ELSE "present"

\* Line 188 / 228: the poll loop's condition.
PollOpen == now - trial.start_poll < timeout

\* docker_client.info() and .version(): a dict, or the call raises.
FullInfo == [k \in {"Driver", "MemTotal", "NCPU"} |->
                IF k = "Driver" THEN "overlay2" ELSE "8"]
FullVersion == [k \in {"Version", "ApiVersion"} |->
                IF k = "Version" THEN "24.0" ELSE "1.43"]
InfoReplies == {[raises |-> TRUE, dict |-> <<>>], [raises |-> FALSE, dict |-> FullInfo]}
VersionReplies == {[raises |-> TRUE, dict |-> <<>>], [raises |-> FALSE, dict |-> FullVersion]}

\* Both calls go to the same daemon: in a run they both answer or both
\* raise.
DaemonReplies ==
    {d \in [info : InfoReplies, version : VersionReplies] :
        d.info.raises = d.version.raises}

\* get_system_info: the "docker" part of the metadata.
SystemInfo(info, version) ==
    LET docker_info == IF info.raises THEN <<>> ELSE info.dict
        docker_version == IF version.raises THEN <<>> ELSE version.dict
    IN  [version |-> Get(docker_version, "Version", "unknown"),
         api_version |-> Get(docker_version, "ApiVersion", "unknown"),
         driver |-> Get(docker_info, "Driver", "unknown"),
         total_memory |-> Get(docker_info, "MemTotal", "0"),
         cpus |-> Get(docker_info, "NCPU", "0")]

\* Results with the success rate taken over the trials that produced a
\* sample instead of over num_samples.
ResultsRateOverSamples ==
    [metadata |-> system_info[1],
     test_config |-> [num_samples |-> num_samples, timeout |-> timeout,
                      num_environments |-> Len(temp_dirs)],
     samples |-> samples,
     summary |-> [total_samples |-> Len(samples),
                  timeouts |-> timeouts,
                  success_rate |->
                      IF Len(samples) > 0
                      THEN [num |-> Len(samples), den |-> Len(samples)]
                      ELSE [num |-> 0, den |-> 1]]]

\* Lines 298-311: the dict run_stress_test returns.
Results ==
    [metadata |-> system_info[1],
     test_config |-> [num_samples |-> num_samples, timeout |-> timeout,
                      num_environments |-> Len(temp_dirs)],
     samples |-> samples,
     summary |-> [total_samples |-> Len(samples),
                  timeouts |-> timeouts,
                  success_rate |->
                      IF num_samples > 0
                      THEN [num |-> Len(samples), den |-> num_samples]
                      ELSE [num |-> 0, den |-> 1]]]

\* TeardownAttempts with the try inside the loop missing: the first teardown
\* that raises ends the loop.
TeardownAttemptsUntilFailure(seq, failed) ==
    {seq[k] : k \in {j \in 1 .. Len(seq) :
                        \A m \in 1 .. (j - 1) : seq[m] \notin failed}}

\* cleanup()'s for loops: the elements whose teardown is attempted when the
\* teardown of those in `failed` raises.  `except: pass` goes on to the next.
TeardownAttempts(seq, failed) == Range(seq)

\* ------------------------------------------------------ report file (JSON)
\* A JSON document, as json.dump writes it: a tree of objects (members in
\* the order written), arrays, strings, numbers and null.
JStr(s) == [t |-> "string", v |-> s]
JNum(n) == [t |-> "number", v |-> n]
JArr(items) == [t |-> "array", v |-> items]
JObj(members) == [t |-> "object", v |-> members]
JNull == [t |-> "null", v |-> None]

\* json.dump of the "docker" metadata with the "unknown" sentinels written
\* as null.
DumpMetadataNullUnknown(m) ==
    LET Text(s) == IF s = "unknown" THEN JNull ELSE JStr(s)
    IN  JObj(<< <<"version", Text(m.version)>>,
                <<"api_version", Text(m.api_version)>>,
                <<"driver", Text(m.driver)>>,
                <<"total_memory", JNum(m.total_memory)>>,
                <<"cpus", JNum(m.cpus)>> >>)

\* json.dump of the metadata: the texts are str, the totals are int.
DumpMetadata(m) ==
    JObj(<< <<"version", JStr(m.version)>>,
            <<"api_version", JStr(m.api_version)>>,
            <<"driver", JStr(m.driver)>>,
            <<"total_memory", JNum(m.total_memory)>>,
            <<"cpus", JNum(m.cpus)>> >>)

DumpTestConfig(c) ==
    JObj(<< <<"num_samples", JNum(c.num_samples)>>,
            <<"timeout", JNum(c.timeout)>>,
            <<"num_environments", JNum(c.num_environments)>> >>)

DumpSample(s) ==
    JObj(<< <<"sample_id", JNum(s.sample_id)>>,
            <<"test_type", JStr(s.test_type)>>,
            <<"environment", JNum(s.environment)>>,
            <<"latency_ms", JNum(s.latency_ms)>> >>)

DumpSummary(s) ==
    JObj(<< <<"total_samples", JNum(s.total_samples)>>,
            <<"timeouts", JNum(s.timeouts)>>,
            <<"success_rate", JNum(s.success_rate)>> >>)

\* json.dump(results, f, indent=2): dicts become objects with their keys in
\* insertion order, the samples list an array in list order.
JsonDump(r) ==
    JObj(<< <<"metadata", DumpMetadata(r.metadata)>>,
            <<"test_config", DumpTestConfig(r.test_config)>>,
            <<"samples", JArr([n \in 1 .. Len(r.samples) |->
                                  DumpSample(r.samples[n])])>>,
            <<"summary", DumpSummary(r.summary)>> >>)

\* json.load: an object becomes a dict (of a repeated key the last member
\* stays), an array a list, a string a str, a number an int or float, null
\* None.
RECURSIVE JsonLoad(_)
JsonLoad(j) ==
    CASE j.t = "object" ->
            LET Last(k) == CHOOSE n \in 1 .. Len(j.v) :
                              /\ j.v[n][1] = k
                              /\ \A m \in (n + 1) .. Len(j.v) : j.v[m][1] # k
            IN  [k \in {j.v[n][1] : n \in 1 .. Len(j.v)} |->
                    JsonLoad(j.v[Last(k)][2])]
      [] j.t = "array" -> [n \in 1 .. Len(j.v) |-> JsonLoad(j.v[n])]
      [] OTHER -> j.v

\* ------------------------------------------------------- analyze_results
\* Latencies are whole numbers of ms; the statistics are rationals
\* [num, den] with den > 0, not reduced.
Zero == [num |-> 0, den |-> 1]
Leq(a, b) == a.num * b.den <= b.num * a.den
Whole(n) == [num |-> n, den |-> 1]

\* statistics.mean, statistics.stdev and min raise on data they cannot take.
StatisticsError == [raises |-> "StatisticsError"]
Raises(x) == "raises" \in DOMAIN x

RECURSIVE Sum(_)
Sum(l) == IF l = <<>> THEN 0 ELSE Head(l) + Sum(Tail(l))

Squares(l) == [n \in 1 .. Len(l) |-> l[n] * l[n]]

\* sorted(data), ascending.
RECURSIVE Sorted(_)
Sorted(l) ==
    IF l = <<>> THEN <<>>
    ELSE LET x == Head(l)
             rest == Sorted(Tail(l))
         IN  SelectSeq(rest, LAMBDA y : y < x) \o <<x>>
                \o SelectSeq(rest, LAMBDA y : y >= x)

\* min(latencies), max(latencies) of a non-empty list.
Min(l) == CHOOSE x \in Range(l) : \A y \in Range(l) : x <= y
Max(l) == CHOOSE x \in Range(l) : \A y \in Range(l) : y <= x

\* statistics.mean of a non-empty list.
Mean(l) == [num |-> Sum(l), den |-> Len(l)]

\* statistics.median: the middle element of the sorted data, or the mean
\* of the two middle elements.
Median(l) ==
    LET s == Sorted(l)
        n == Len(l)
    IN  IF n % 2 = 1
        THEN Whole(s[(n \div 2) + 1])
        ELSE [num |-> s[n \div 2] + s[(n \div 2) + 1], den |-> 2]

\* statistics.stdev: the square root of the sample variance; it raises
\* StatisticsError on fewer than two data points.  The root is not taken
\* here: a standard deviation is represented by its square.
Stdev(l) ==
    LET n == Len(l) IN
    IF n < 2 THEN StatisticsError
    ELSE [num |-> n * Sum(Squares(l)) - Sum(l) * Sum(l), den |-> n * (n - 1)]

\* StdDev without the guard of lines 351, 364, 374.
StdDevUnguarded(l) == Stdev(l)

\* statistics.stdev(latencies) if len(latencies) > 1 else 0
StdDev(l) == IF Len(l) > 1 THEN Stdev(l) ELSE Zero

\* Linear interpolation between the order statistics s[lo], s[lo + 1] at
\* the virtual index (n - 1) * q / 100 (counted from 0) of the ascending
\* data s.
Interpolate(s, q) ==
    LET pos == (Len(s) - 1) * q
        lo == pos \div 100
        frac == pos % 100
    IN  [num |-> s[lo + 1] * (100 - frac)
                    + (IF frac = 0 THEN 0 ELSE s[lo + 2] * frac),
         den |-> 100]

\* Percentile that interpolates in the data as given, unsorted.
PercentileUnsorted(l, q) == Interpolate(l, q)

\* np.percentile(latencies, q), default method "linear".
Percentile(l, q) == Interpolate(Sorted(l), q)

\* The "overall" entry, lines 347-356.  The dict display is evaluated in
\* order: the first call that raises ends it.
OverallBlock(l) ==
    IF l = <<>> \/ Raises(StdDev(l)) THEN StatisticsError
    ELSE [count |-> Len(l), mean |-> Mean(l), median |-> Median(l),
          std_dev |-> StdDev(l), min |-> Min(l), max |-> Max(l),
          p95 |-> Percentile(l, 95), p99 |-> Percentile(l, 99)]

\* KindBlock with the percentiles of the overall entry.
KindBlockWithPercentiles(l) == OverallBlock(l)

\* The "file_operations" and "directory_operations" entries, lines 360-367
\* and 370-377.
KindBlock(l) ==
    IF l = <<>> \/ Raises(StdDev(l)) THEN StatisticsError
    ELSE [count |-> Len(l), mean |-> Mean(l), median |-> Median(l),
          std_dev |-> StdDev(l), min |-> Min(l), max |-> Max(l)]

\* NoSamples without the check.
NoSamplesUnchecked(s) == FALSE

\* Line 337: `if not samples`.
NoSamples(s) == s = <<>>

\* KindPresent without the check.
KindPresentUnchecked(l) == TRUE

\* Lines 359, 369: `if file_latencies:`, `if dir_latencies:`.
KindPresent(l) == l # <<>>

\* [s["latency_ms"] for s in samples if s["test_type"] == kind]
LatenciesOf(s, kind) ==
    LET of_kind == SelectSeq(s, LAMBDA x : x.test_type = kind)
    IN  [n \in 1 .. Len(of_kind) |-> of_kind[n].latency_ms]

\* analyze_results(results): the dict it returns, or StatisticsError when
\* one of its calls raises.
analyze_results(r) ==
    LET latencies == [n \in 1 .. Len(r.samples) |-> r.samples[n].latency_ms]
        file_latencies == LatenciesOf(r.samples, "file")
        dir_latencies == LatenciesOf(r.samples, "directory")
        keys == {"overall"}
                   \cup (IF KindPresent(file_latencies)
                         THEN {"file_operations"} ELSE {})
                   \cup (IF KindPresent(dir_latencies)
                         THEN {"directory_operations"} ELSE {})
        stats_dict == [k \in keys |->
                         CASE k = "overall" -> OverallBlock(latencies)
                           [] k = "file_operations" -> KindBlock(file_latencies)
                           [] k = "directory_operations" -> KindBlock(dir_latencies)]
    IN  IF NoSamples(r.samples) THEN [error |-> "No samples to analyze"]
        ELSE IF \E k \in keys : Raises(stats_dict[k]) THEN StatisticsError
        ELSE stats_dict

\* ------------------------------------------------------------------ Init
\* State when main() enters its try block: the tester is constructed
\* (self.temp_dirs = [], self.containers = []), nothing is provisioned.
Init ==
    /\ pc = "sysinfo"
    /\ num_samples \in 0 .. MaxSamples
    /\ timeout \in 1 .. MaxTimeout
    /\ now = 0
    /\ self_temp_dirs = <<>>
    /\ self_containers = <<>>
    /\ hostDirs = {}
    /\ dockerContainers = {}
    /\ hostFs = {}
    /\ attempted = {}
    /\ system_info = NoValue
    /\ temp_dirs = <<>>
    /\ containers = <<>>
    /\ samples = <<>>
    /\ timeouts = 0
    /\ i = 0
    /\ trial = NoTrial
    /\ latency = NoValue
    /\ results = NoValue
    /\ reportFile = NoValue
    /\ stats = NoValue
    /\ raised = NoRaise

tester == <<num_samples, timeout>>
world == <<self_temp_dirs, self_containers, hostDirs, dockerContainers, attempted>>

\* An exception leaves run_stress_test (or the statements after it in
\* main's try block): the frame's locals are gone, main's except clause
\* prints, and the finally clause runs cleanup().
Unwind(exc) ==
    /\ raised' = [exc |-> exc, at |-> pc, done |-> i]
    /\ pc' = "cleanup"
    /\ system_info' = NoValue
    /\ temp_dirs' = <<>>
    /\ containers' = <<>>
    /\ samples' = <<>>
    /\ timeouts' = 0
    /\ i' = 0
    /\ trial' = NoTrial
    /\ latency' = NoValue

\* ---------------------------------------------------------- run_stress_test
GetSystemInfo ==
    /\ pc = "sysinfo"
    /\ \E d \in DaemonReplies :
          system_info' = <<SystemInfo(d.info, d.version)>>
    /\ pc' = "provision"
    /\ UNCHANGED <<tester, now, world, hostFs, temp_dirs, containers, samples,
                   timeouts, i, trial, latency, results, reportFile, stats, raised>>

\* create_test_environment, first half of one iteration: tempfile.mkdtemp.
MkDtemp ==
    /\ pc = "provision"
    /\ Len(temp_dirs) = Len(containers)
    /\ Len(temp_dirs) < NumEnvironments
    /\ \E ok \in BOOLEAN :
          IF ok
          THEN /\ temp_dirs' = Append(temp_dirs, Len(temp_dirs))
               /\ self_temp_dirs' = Append(self_temp_dirs, Len(temp_dirs))
               /\ hostDirs' = hostDirs \cup {Len(temp_dirs)}
               /\ UNCHANGED <<pc, system_info, containers, samples, timeouts,
                              i, trial, latency, raised>>
          ELSE /\ Unwind("Exception")
               /\ UNCHANGED <<self_temp_dirs, hostDirs>>
    /\ UNCHANGED <<tester, now, self_containers, dockerContainers, attempted,
                   hostFs, results, reportFile, stats>>

\* RunContainer with the failure of containers.run swallowed: the function
\* returns the environments it has and the trials start.
RunContainerReturnsOnFailure ==
    /\ pc = "provision"
    /\ Len(temp_dirs) = Len(containers) + 1
    /\ \E ok \in BOOLEAN :
          IF ok
          THEN /\ containers' = Append(containers, Len(containers))
               /\ self_containers' = Append(self_containers, Len(containers))
               /\ dockerContainers' = dockerContainers \cup {Len(containers)}
               /\ pc' = IF Len(containers) + 1 = NumEnvironments
                        THEN "loop" ELSE "provision"
          ELSE /\ pc' = "loop"
               /\ UNCHANGED <<containers, self_containers, dockerContainers>>
    /\ samples' = <<>>
    /\ timeouts' = 0
    /\ i' = 0
    /\ UNCHANGED <<tester, now, self_temp_dirs, hostDirs, attempted, hostFs,
                   system_info, temp_dirs, trial, latency, results,
                   reportFile, stats, raised>>

\* create_test_environment, second half: docker_client.containers.run.
\* After the third container the function returns and the sample list and
\* the timeout counter are initialised.
RunContainer ==
    /\ pc = "provision"
    /\ Len(temp_dirs) = Len(containers) + 1
    /\ \E ok \in BOOLEAN :
          IF ok
          THEN /\ containers' = Append(containers, Len(containers))
               /\ self_containers' = Append(self_containers, Len(containers))
               /\ dockerContainers' = dockerContainers \cup {Len(containers)}
               /\ pc' = IF Len(containers) + 1 = NumEnvironments
                        THEN "loop" ELSE "provision"
               /\ samples' = <<>>
               /\ timeouts' = 0
               /\ i' = 0
               /\ UNCHANGED <<system_info, temp_dirs, trial, latency, raised>>
          ELSE /\ Unwind("Exception")
               /\ UNCHANGED <<self_containers, dockerContainers>>
    /\ UNCHANGED <<tester, now, self_temp_dirs, hostDirs, attempted, hostFs,
                   results, reportFile, stats>>

Artifact(env, name, kind) == [dir |-> env, name |-> name, kind |-> kind]

\* Line 159: the container of an iteration of create_test_environment is
\* run with the temp directory of that iteration as its volume.  Both are
\* named by the number of the iteration.
MountedDir(container) == container

\* NewTrial with one deadline for the whole run: the poll clock starts when
\* the run does, not when the trial does.
NewTrialCumulativeDeadline(test_type, env, name, content) ==
    [test_type |-> test_type, env_idx |-> env,
     temp_dir |-> temp_dirs[env + 1], container |-> containers[env + 1],
     name |-> name,
     content |-> content, write_end |-> now, start_poll |-> 0,
     last |-> None, verified |-> FALSE, cleanup |-> None]

\* NewTrial with the container taken from the first environment whatever
\* env_idx is.
NewTrialPollsFirstContainer(test_type, env, name, content) ==
    [test_type |-> test_type, env_idx |-> env,
     temp_dir |-> temp_dirs[env + 1], container |-> containers[1],
     name |-> name,
     content |-> content, write_end |-> now, start_poll |-> now,
     last |-> None, verified |-> FALSE, cleanup |-> None]

\* Lines 274-275 and 172-187 (222-227): the host directory and container
\* picked for the trial, and the trial's locals when its poll loop starts.
\* write_end and start_poll are both taken right after the host write.
NewTrial(test_type, env, name, content) ==
    [test_type |-> test_type, env_idx |-> env,
     temp_dir |-> temp_dirs[env + 1], container |-> containers[env + 1],
     name |-> name,
     content |-> content, write_end |-> now, start_poll |-> now,
     last |-> None, verified |-> FALSE, cleanup |-> None]

\* One loop iteration up to the poll loop of measure_write_latency: choose
\* "file" and an environment, generate name and payload, write the host
\* file.  open() raises when the host refuses the write or when the name is
\* taken by a directory.
StartFileTrial ==
    /\ pc = "loop"
    /\ i < num_samples
    /\ \E env \in 0 .. (Len(temp_dirs) - 1), name \in Names,
          content \in Payloads, ok \in BOOLEAN :
          LET host_path == temp_dirs[env + 1] IN
          IF ok /\ Artifact(host_path, name, "dir") \notin hostFs
          THEN /\ hostFs' = hostFs \cup {Artifact(host_path, name, "file")}
               /\ trial' = NewTrial("file", env, name, content)
               /\ pc' = "poll"
               /\ UNCHANGED <<system_info, temp_dirs, containers, samples,
                              timeouts, i, latency, raised>>
          ELSE /\ Unwind("Exception")
               /\ UNCHANGED hostFs
    /\ UNCHANGED <<tester, now, world, results, reportFile, stats>>

\* The same for measure_directory_latency: os.makedirs raises when the
\* host refuses or when the name exists already.
StartDirTrial ==
    /\ pc = "loop"
    /\ i < num_samples
    /\ \E env \in 0 .. (Len(temp_dirs) - 1), name \in Names, ok \in BOOLEAN :
          LET host_path == temp_dirs[env + 1] IN
          IF /\ ok
             /\ Artifact(host_path, name, "dir") \notin hostFs
             /\ Artifact(host_path, name, "file") \notin hostFs
          THEN /\ hostFs' = hostFs \cup {Artifact(host_path, name, "dir")}
               /\ trial' = NewTrial("directory", env, name, <<>>)
               /\ pc' = "poll"
               /\ UNCHANGED <<system_info, temp_dirs, containers, samples,
                              timeouts, i, latency, raised>>
          ELSE /\ Unwind("Exception")
               /\ UNCHANGED hostFs
    /\ UNCHANGED <<tester, now, world, results, reportFile, stats>>

\* The host artifact of the trial in progress.
HostArtifact ==
    Artifact(temp_dirs[trial.env_idx + 1], trial.name,
             IF trial.test_type = "file" THEN "file" ELSE "dir")

\* The trial after a poll iteration that got a reply of kind `kind`.
Polled(kind, visible, cleanup) ==
    [trial EXCEPT !.last = kind,
                  !.verified = @ \/ visible,
                  !.cleanup = IF visible THEN cleanup ELSE @]

\* One iteration of the poll loop of measure_write_latency (lines 188-204).
\* os.remove succeeds or raises.  Whatever is raised inside the try block is
\* swallowed, and the loop sleeps one tick.
PollFile ==
    /\ pc = "poll"
    /\ trial.test_type = "file"
    /\ PollOpen
    /\ \E r \in FileReplies(trial.content) :
          LET kind == FileReplyKind(r, trial.content) IN
          IF FileVisible(r, trial.content)
          THEN \E removed \in BOOLEAN :
                  IF removed
                  THEN /\ hostFs' = hostFs \ {HostArtifact}
                       /\ latency' = <<now - trial.write_end>>
                       /\ pc' = "record"
                       /\ trial' = Polled(kind, TRUE, "removed")
                       /\ UNCHANGED now
                  ELSE /\ now' = now + 1
                       /\ trial' = Polled(kind, TRUE, "failed")
                       /\ UNCHANGED <<hostFs, latency, pc>>
          ELSE /\ now' = now + 1
               /\ trial' = Polled(kind, FALSE, None)
               /\ UNCHANGED <<hostFs, latency, pc>>
    /\ UNCHANGED <<tester, world, system_info, temp_dirs, containers, samples,
                   timeouts, i, results, reportFile, stats, raised>>

\* PollDir without the shutil.rmtree of line 236: the latency is returned
\* and the host directory stays.
PollDirKeepsDirectory ==
    /\ pc = "poll"
    /\ trial.test_type = "directory"
    /\ PollOpen
    /\ \E r \in DirReplies :
          LET kind == DirReplyKind(r) IN
          IF DirVisible(r)
          THEN /\ latency' = <<now - trial.write_end>>
               /\ pc' = "record"
               /\ trial' = Polled(kind, TRUE, None)
               /\ UNCHANGED <<hostFs, now>>
          ELSE /\ now' = now + 1
               /\ trial' = Polled(kind, FALSE, None)
               /\ UNCHANGED <<hostFs, latency, pc>>
    /\ UNCHANGED <<tester, world, system_info, temp_dirs, containers, samples,
                   timeouts, i, results, reportFile, stats, raised>>

\* PollDir without the try block: an exec_run that raises ends the run.
PollDirAbortOnError ==
    /\ pc = "poll"
    /\ trial.test_type = "directory"
    /\ PollOpen
    /\ \E r \in DirReplies :
          IF r.testRaises
          THEN /\ Unwind("Exception")
               /\ UNCHANGED <<hostFs, now>>
          ELSE /\ IF DirVisible(r)
                  THEN /\ hostFs' = hostFs \ {HostArtifact}
                       /\ latency' = <<now - trial.write_end>>
                       /\ pc' = "record"
                       /\ trial' = Polled(DirReplyKind(r), TRUE, "removed")
                       /\ UNCHANGED now
                  ELSE /\ now' = now + 1
                       /\ trial' = Polled(DirReplyKind(r), FALSE, None)
                       /\ UNCHANGED <<hostFs, latency, pc>>
               /\ UNCHANGED <<system_info, temp_dirs, containers, samples,
                              timeouts, i, raised>>
    /\ UNCHANGED <<tester, world, results, reportFile, stats>>

\* One iteration of the poll loop of measure_directory_latency (228-241).
PollDir ==
    /\ pc = "poll"
    /\ trial.test_type = "directory"
    /\ PollOpen
    /\ \E r \in DirReplies :
          LET kind == DirReplyKind(r) IN
          IF DirVisible(r)
          THEN \E removed \in BOOLEAN :
                  IF removed
                  THEN /\ hostFs' = hostFs \ {HostArtifact}
                       /\ latency' = <<now - trial.write_end>>
                       /\ pc' = "record"
                       /\ trial' = Polled(kind, TRUE, "removed")
                       /\ UNCHANGED now
                  ELSE /\ now' = now + 1
                       /\ trial' = Polled(kind, TRUE, "failed")
                       /\ UNCHANGED <<hostFs, latency, pc>>
          ELSE /\ now' = now + 1
               /\ trial' = Polled(kind, FALSE, None)
               /\ UNCHANGED <<hostFs, latency, pc>>
    /\ UNCHANGED <<tester, world, system_info, temp_dirs, containers, samples,
                   timeouts, i, results, reportFile, stats, raised>>

\* TrialTimeout without the cleanup: None is returned and the host artifact
\* stays.
TrialTimeoutNoCleanup ==
    /\ pc = "poll"
    /\ ~PollOpen
    /\ latency' = NoValue
    /\ pc' = "record"
    /\ UNCHANGED <<tester, now, world, hostFs, system_info, temp_dirs,
                   containers, samples, timeouts, i, trial, results,
                   reportFile, stats, raised>>

\* The poll loop ends on its condition (lines 206-212, 243-249): the host
\* artifact is removed, best effort, and the trial returns None.
TrialTimeout ==
    /\ pc = "poll"
    /\ ~PollOpen
    /\ \E removed \in BOOLEAN :
          /\ hostFs' = IF removed THEN hostFs \ {HostArtifact} ELSE hostFs
          /\ trial' = [trial EXCEPT !.cleanup = IF removed THEN "removed"
                                                ELSE "failed"]
    /\ latency' = NoValue
    /\ pc' = "record"
    /\ UNCHANGED <<tester, now, world, system_info, temp_dirs, containers,
                   samples, timeouts, i, results, reportFile, stats, raised>>

\* Record with the sample id taken from the number of samples so far
\* instead of the loop index.
RecordIdFromSampleCount ==
    /\ pc = "record"
    /\ IF latency # NoValue
       THEN /\ samples' = Append(samples,
                                 [sample_id |-> Len(samples),
                                  test_type |-> trial.test_type,
                                  environment |-> trial.env_idx,
                                  latency_ms |-> latency[1]])
            /\ UNCHANGED timeouts
       ELSE /\ timeouts' = timeouts + 1
            /\ UNCHANGED samples
    /\ i' = i + 1
    /\ trial' = NoTrial
    /\ latency' = NoValue
    /\ pc' = "loop"
    /\ UNCHANGED <<tester, now, world, hostFs, system_info, temp_dirs,
                   containers, results, reportFile, stats, raised>>

\* Record with a retry: a trial that timed out is counted and then run
\* again under the same loop index.
RecordRetriesTimeout ==
    /\ pc = "record"
    /\ IF latency # NoValue
       THEN /\ samples' = Append(samples,
                                 [sample_id |-> i,
                                  test_type |-> trial.test_type,
                                  environment |-> trial.env_idx,
                                  latency_ms |-> latency[1]])
            /\ i' = i + 1
            /\ UNCHANGED timeouts
       ELSE /\ timeouts' = timeouts + 1
            /\ UNCHANGED <<samples, i>>
    /\ trial' = NoTrial
    /\ latency' = NoValue
    /\ pc' = "loop"
    /\ UNCHANGED <<tester, now, world, hostFs, system_info, temp_dirs,
                   containers, results, reportFile, stats, raised>>

\* Record with `timeouts += 1` outside the else branch.
RecordCountsTimeoutToo ==
    /\ pc = "record"
    /\ IF latency # NoValue
       THEN samples' = Append(samples,
                              [sample_id |-> i,
                               test_type |-> trial.test_type,
                               environment |-> trial.env_idx,
                               latency_ms |-> latency[1]])
       ELSE UNCHANGED samples
    /\ timeouts' = timeouts + 1
    /\ i' = i + 1
    /\ trial' = NoTrial
    /\ latency' = NoValue
    /\ pc' = "loop"
    /\ UNCHANGED <<tester, now, world, hostFs, system_info, temp_dirs,
                   containers, results, reportFile, stats, raised>>

\* Lines 282-293: the trial's result goes into the counters.  The sample's
\* "timestamp" (datetime.now()) is left out of the sample.
Record ==
    /\ pc = "record"
    /\ IF latency # NoValue
       THEN /\ samples' = Append(samples,
                                 [sample_id |-> i,
                                  test_type |-> trial.test_type,
                                  environment |-> trial.env_idx,
                                  latency_ms |-> latency[1]])
            /\ UNCHANGED timeouts
       ELSE /\ timeouts' = timeouts + 1
            /\ UNCHANGED samples
    /\ i' = i + 1
    /\ trial' = NoTrial
    /\ latency' = NoValue
    /\ pc' = "loop"
    /\ UNCHANGED <<tester, now, world, hostFs, system_info, temp_dirs,
                   containers, results, reportFile, stats, raised>>

\* The for loop is exhausted: run_stress_test compiles and returns the
\* results.
CompileResults ==
    /\ pc = "loop"
    /\ i = num_samples
    /\ results' = <<Results>>
    /\ pc' = "save"
    /\ system_info' = NoValue
    /\ temp_dirs' = <<>>
    /\ containers' = <<>>
    /\ samples' = <<>>
    /\ timeouts' = 0
    /\ i' = 0
    /\ UNCHANGED <<tester, now, world, hostFs, trial, latency, reportFile, stats,
                   raised>>

\* --------------------------------------------------------------------- main
\* tester.save_report(results, args.output): the file is written, or open /
\* json.dump raises.
SaveReport ==
    /\ pc = "save"
    /\ \E ok \in BOOLEAN :
          IF ok
          THEN /\ reportFile' = <<JsonDump(results[1])>>
               /\ pc' = "analyze"
               /\ UNCHANGED <<system_info, temp_dirs, containers, samples,
                              timeouts, i, trial, latency, raised>>
          ELSE /\ Unwind("Exception")
               /\ UNCHANGED reportFile
    /\ UNCHANGED <<tester, now, world, hostFs, results, stats>>

\* Line 551: stats = analyze_results(results).
Analyze ==
    /\ pc = "analyze"
    /\ LET s == analyze_results(results[1]) IN
          IF Raises(s)
          THEN /\ Unwind("Exception")
               /\ UNCHANGED stats
          ELSE /\ stats' = <<s>>
               /\ pc' = "present"
               /\ UNCHANGED <<system_info, temp_dirs, containers, samples,
                              timeouts, i, trial, latency, raised>>
    /\ UNCHANGED <<tester, now, world, hostFs, results, reportFile>>

\* Lines 552-553: print_statistics, create_graphs: they end, or raise.
Present ==
    /\ pc = "present"
    /\ \E ok \in BOOLEAN :
          IF ok
          THEN /\ pc' = "cleanup"
               /\ UNCHANGED <<system_info, temp_dirs, containers, samples,
                              timeouts, i, trial, latency, raised>>
          ELSE Unwind("Exception")
    /\ UNCHANGED <<tester, now, world, hostFs, results, reportFile, stats>>

\* Ctrl-C: KeyboardInterrupt is raised at whatever statement of the try
\* block the main thread is executing.  It is no Exception, so the poll
\* loops' `except Exception` does not catch it.
InTry ==
    pc \in {"sysinfo", "provision", "loop", "poll", "record", "save", "analyze",
            "present"}

Interrupt ==
    /\ InTry
    /\ Unwind("KeyboardInterrupt")
    /\ UNCHANGED <<tester, now, world, hostFs, results, reportFile, stats>>

\* The teardown calls that raise in one cleanup(): none, or one of them.
TeardownFailures ==
    {{}} \cup {{<<"container", c>>} : c \in Range(self_containers)}
         \cup {{<<"temp_dir", d>>} : d \in Range(self_temp_dirs)}

\* cleanup(): stop and remove every container of self.containers, then
\* shutil.rmtree every directory of self.temp_dirs.  A teardown that
\* raises leaves its container or directory behind.
Cleanup ==
    /\ pc = "cleanup"
    /\ \E failed \in TeardownFailures :
          LET failedC == {c \in Range(self_containers) : <<"container", c>> \in failed}
              failedD == {d \in Range(self_temp_dirs) : <<"temp_dir", d>> \in failed}
              triedC == TeardownAttempts(self_containers, failedC)
              triedD == TeardownAttempts(self_temp_dirs, failedD)
          IN  /\ attempted' = attempted
                                \cup {<<"container", c>> : c \in triedC}
                                \cup {<<"temp_dir", d>> : d \in triedD}
              /\ dockerContainers' = dockerContainers \ (triedC \ failedC)
              /\ hostDirs' = hostDirs \ (triedD \ failedD)
              /\ hostFs' = {a \in hostFs : a.dir \notin (triedD \ failedD)}
    /\ pc' = "exited"
    /\ UNCHANGED <<tester, now, self_temp_dirs, self_containers, system_info,
                   temp_dirs, containers, samples, timeouts, i, trial,
                   latency, results, reportFile, stats, raised>>

Next ==
    \/ GetSystemInfo
    \/ MkDtemp
    \/ RunContainer
    \/ StartFileTrial
    \/ StartDirTrial
    \/ PollFile
    \/ PollDir
    \/ TrialTimeout
    \/ Record
    \/ CompileResults
    \/ SaveReport
    \/ Analyze
    \/ Present
    \/ Interrupt
    \/ Cleanup

Spec == Init /\ [][Next]_vars

\* A run without Ctrl-C.  main() is one thread executing statement after
\* statement: as long as the calls it makes return or raise and time.time()
\* advances over time.sleep, the next step is taken.
Uninterrupted ==
    \/ GetSystemInfo
    \/ MkDtemp
    \/ RunContainer
    \/ StartFileTrial
    \/ StartDirTrial
    \/ PollFile
    \/ PollDir
    \/ TrialTimeout
    \/ Record
    \/ CompileResults
    \/ SaveReport
    \/ Analyze
    \/ Present
    \/ Cleanup

\* The runs checked for termination: those of up to MaxLiveSamples trials.
LiveInit == Init /\ num_samples <= MaxLiveSamples

LiveSpec == LiveInit /\ [][Uninterrupted]_vars /\ WF_vars(Uninterrupted)

\* ------------------------------------------------------------ analyze mode
\* main() with --analyze (lines 535-541): a report file is loaded and
\* analysed; no tester is constructed and there is no try block.
Kinds == {"file", "directory"}

\* The sample lists of the report files: up to MaxReportSamples samples of
\* either kind with latencies up to MaxLatency, numbered in order.
SampleLists ==
    UNION {{[n \in 1 .. len |->
                [sample_id |-> n - 1, test_type |-> f[n].test_type,
                 environment |-> 0, latency_ms |-> f[n].latency_ms]] :
             f \in [1 .. len -> [test_type : Kinds,
                                 latency_ms : 0 .. MaxLatency]]} :
           len \in 0 .. MaxReportSamples}

\* The report of a run that recorded the samples s and no timeout.
ReportOf(s) ==
    [metadata |-> SystemInfo([raises |-> TRUE, dict |-> <<>>],
                             [raises |-> TRUE, dict |-> <<>>]),
     test_config |-> [num_samples |-> Len(s), timeout |-> 1,
                      num_environments |-> NumEnvironments],
     samples |-> s,
     summary |-> [total_samples |-> Len(s), timeouts |-> 0,
                  success_rate |-> IF Len(s) > 0
                                   THEN [num |-> Len(s), den |-> Len(s)]
                                   ELSE [num |-> 0, den |-> 1]]]

AnalyzeInit ==
    /\ pc = "load"
    /\ reportFile \in {<<JsonDump(ReportOf(s))>> : s \in SampleLists}
    /\ num_samples = 0
    /\ timeout = 1
    /\ now = 0
    /\ self_temp_dirs = <<>>
    /\ self_containers = <<>>
    /\ hostDirs = {}
    /\ dockerContainers = {}
    /\ hostFs = {}
    /\ attempted = {}
    /\ system_info = NoValue
    /\ temp_dirs = <<>>
    /\ containers = <<>>
    /\ samples = <<>>
    /\ timeouts = 0
    /\ i = 0
    /\ trial = NoTrial
    /\ latency = NoValue
    /\ results = NoValue
    /\ stats = NoValue
    /\ raised = NoRaise

run_state == <<tester, now, world, hostFs, system_info, temp_dirs, containers,
               samples, timeouts, i, trial, latency>>

\* An exception nothing catches: the traceback is printed and the process
\* exits.
Uncaught(exc) ==
    /\ raised' = [exc |-> exc, at |-> pc, done |-> 0]
    /\ pc' = "exited"

\* Line 538: results = load_report(args.analyze); open or json.load may
\* raise.
LoadReport ==
    /\ pc = "load"
    /\ \E ok \in BOOLEAN :
          IF ok
          THEN /\ results' = <<JsonLoad(reportFile[1])>>
               /\ pc' = "analyze_loaded"
               /\ UNCHANGED raised
          ELSE /\ Uncaught("Exception")
               /\ UNCHANGED results
    /\ UNCHANGED <<run_state, reportFile, stats>>

\* Line 539: stats = analyze_results(results).
AnalyzeLoaded ==
    /\ pc = "analyze_loaded"
    /\ LET s == analyze_results(results[1]) IN
          IF Raises(s)
          THEN /\ Uncaught("Exception")
               /\ UNCHANGED stats
          ELSE /\ stats' = <<s>>
               /\ pc' = "present_loaded"
               /\ UNCHANGED raised
    /\ UNCHANGED <<run_state, results, reportFile>>

\* Lines 540-541: print_statistics, create_graphs: they end, or raise.
PresentLoaded ==
    /\ pc = "present_loaded"
    /\ \E ok \in BOOLEAN :
          IF ok
          THEN /\ pc' = "exited"
               /\ UNCHANGED raised
          ELSE Uncaught("Exception")
    /\ UNCHANGED <<run_state, results, reportFile, stats>>

AnalyzeNext ==
    \/ LoadReport
    \/ AnalyzeLoaded
    \/ PresentLoaded

AnalyzeSpec == AnalyzeInit /\ [][AnalyzeNext]_vars

\* ------------------------------------------------------------------ claims
InRun == pc \in {"loop", "poll", "record"}

\* C1: the sample list and the timeout counter together account for every
\* trial that has returned: after i trials len(samples) + timeouts = i, and
\* in the report of a completed run total_samples + timeouts = num_samples.
C1_CountersAccountForTrials ==
    /\ Len(samples) + timeouts = i
    /\ results # NoValue =>
          results[1].summary.total_samples + results[1].summary.timeouts
             = results[1].test_config.num_samples

C1_Witness ==
    /\ results # NoValue
    /\ results[1].summary.total_samples = 1
    /\ results[1].summary.timeouts = 1

\* C2 (as amended): a File trial in which no poll iteration found the file
\* visible returns None, has attempted to remove its host file (the file is
\* gone unless os.remove itself raised, which is swallowed), and is recorded
\* by one more timeout and no sample.
C2_TimedOutFileTrial ==
    [][(pc = "record" /\ pc' = "loop" /\ trial.test_type = "file"
           /\ ~trial.verified)
        => /\ latency = NoValue
           /\ trial.cleanup # None
           /\ (trial.cleanup = "removed" => HostArtifact \notin hostFs)
           /\ samples' = samples
           /\ timeouts' = timeouts + 1]_vars

C2_Witness ==
    /\ pc = "record"
    /\ trial.test_type = "file"
    /\ ~trial.verified
    /\ latency = NoValue
    /\ trial.cleanup = "removed"
    /\ HostArtifact \notin hostFs

\* C2 as stated: the host file has been removed when such a trial returns.
C2_HostFileAlwaysRemoved ==
    [][(pc = "record" /\ pc' = "loop" /\ trial.test_type = "file"
           /\ ~trial.verified)
        => /\ latency = NoValue
           /\ HostArtifact \notin hostFs
           /\ samples' = samples
           /\ timeouts' = timeouts + 1]_vars

C4_PollErrorsSwallowed ==
    /\ raised.exc = "Exception" => raised.at # "poll"
    /\ (pc = "record" /\ latency = NoValue) => ~PollOpen
    /\ (pc = "record" /\ trial.last = "raise") => latency = NoValue

C4_Witness ==
    /\ pc = "poll"
    /\ trial.test_type = "directory"
    /\ trial.last = "raise"
    /\ PollOpen

C6_TeardownAttemptedForAll ==
    pc = "exited" =>
       /\ \A c \in dockerContainers : <<"container", c>> \in attempted
       /\ \A d \in hostDirs : <<"temp_dir", d>> \in attempted

C6_Witness ==
    /\ pc = "exited"
    /\ 0 \in dockerContainers
    /\ Cardinality(attempted) = 2 * NumEnvironments

\* C7: an interrupt is observed only between trials, never inside a poll
\* loop.
C7_InterruptOnlyBetweenTrials ==
    raised.exc = "KeyboardInterrupt" => raised.at # "poll"

\* C8: a run interrupted after some trials have finished still writes a
\* report.
C8_InterruptedRunWritesReport ==
    (pc = "exited" /\ raised.exc = "KeyboardInterrupt"
        /\ raised.at \in {"loop", "poll", "record"} /\ raised.done > 0)
       => reportFile # NoValue

\* C9: trials run and a report exists only when all the environments were
\* provisioned; a provisioning failure leaves run_stress_test as an
\* exception, before any trial and without results or report.
C9_ProvisioningFailureIsFatal ==
    /\ (InRun \/ results # NoValue \/ reportFile # NoValue
           \/ now > 0 \/ hostFs # {})
          => /\ Len(self_temp_dirs) = NumEnvironments
             /\ Len(self_containers) = NumEnvironments
    /\ (raised.exc = "Exception" /\ raised.at = "provision")
          => (results = NoValue /\ reportFile = NoValue /\ ~InRun)

C9_Witness ==
    /\ pc = "exited"
    /\ raised.exc = "Exception"
    /\ raised.at = "provision"
    /\ Len(self_temp_dirs) = 2
    /\ Len(self_containers) = 1
    /\ reportFile = NoValue

\* C10: an error raised by a trial's host-side write or directory creation
\* does not abort the run: only provisioning and report I/O errors do.
C10_TrialErrorsAbsorbed ==
    raised.exc = "Exception"
       => raised.at \in {"provision", "save", "analyze", "present"}

\* C11: once a poll iteration has verified visibility, the trial returns
\* with the latency of that detection, whether or not the deletion of the
\* host artifact succeeds: a trial that has verified visibility is never
\* found polling again and never returns None.
C11_DetectedSuccessReturns ==
    trial.verified => (pc = "record" /\ latency # NoValue)

\* C12: the timeout budget is per trial.  A trial's poll clock starts when
\* the trial does, whatever the trials before it took; while it polls no
\* more than `timeout` has passed since its own start, and it returns None
\* only when all of `timeout` has passed since its own start.
C12_TimeoutBudgetPerTrial ==
    /\ pc \in {"poll", "record"} => trial.start_poll = trial.write_end
    /\ pc = "poll" => now - trial.write_end <= timeout
    /\ (pc = "record" /\ latency = NoValue) => now - trial.write_end = timeout

C12_Witness ==
    /\ pc = "poll"
    /\ timeouts >= 1
    /\ trial.last # None
    /\ now > timeout
    /\ PollOpen

IdsIncreasing(s) ==
    \A p \in 1 .. Len(s) : \A q \in (p + 1) .. Len(s) :
        s[p].sample_id < s[q].sample_id

\* C13: sample ids are pairwise distinct and strictly increasing with the
\* position in the samples sequence, during the run and in the report, and
\* the id a successful trial's sample gets is the sequence number of the
\* trial in the order of initiation (the loop index).
C13_SampleIdsFollowInitiation ==
    /\ [](/\ IdsIncreasing(samples)
          /\ \A p \in 1 .. Len(samples) : samples[p].sample_id \in 0 .. (i - 1)
          /\ results # NoValue => IdsIncreasing(results[1].samples))
    /\ [][(pc = "record" /\ pc' = "loop" /\ latency # NoValue)
            => /\ Len(samples') = Len(samples) + 1
               /\ samples'[Len(samples')].sample_id = i]_vars

C13_Witness ==
    /\ results # NoValue
    /\ Len(results[1].samples) = 1
    /\ results[1].samples[1].sample_id = 1

\* C14: success_rate is total_samples / num_samples when num_samples > 0 and
\* 0 when num_samples = 0; a run of zero trials has an empty sample list,
\* no timeouts, and no trial to raise an error.
C14_SuccessRate ==
    /\ results # NoValue =>
          LET r == results[1]
              rate == r.summary.success_rate
          IN  /\ rate.den > 0
              /\ IF r.test_config.num_samples > 0
                 THEN rate.num * r.test_config.num_samples
                         = r.summary.total_samples * rate.den
                 ELSE /\ rate.num = 0
                      /\ r.samples = <<>>
                      /\ r.summary.timeouts = 0
    /\ (num_samples = 0 /\ raised.exc = "Exception")
          => raised.at \notin {"loop", "poll", "record"}

C14_Witness ==
    /\ pc = "exited"
    /\ num_samples = 0
    /\ raised = NoRaise
    /\ results # NoValue
    /\ results[1].summary.success_rate = [num |-> 0, den |-> 1]

\* analyze_results has been called (lines 539, 551): it returned stats, or
\* it raised.
Analysed ==
    \/ stats # NoValue
    \/ raised.exc = "Exception" /\ raised.at \in {"analyze", "analyze_loaded"}

\* C15: analyze_results on a report without samples returns the explicit
\* "no data" result, {"error": "No samples to analyze"}: it computes no
\* statistic and does not raise.
C15_EmptySamplesNoData ==
    (Analysed /\ results[1].samples = <<>>)
       => /\ stats # NoValue
          /\ DOMAIN stats[1] = {"error"}
          /\ stats[1].error = "No samples to analyze"

C15_Witness ==
    /\ pc = "exited"
    /\ raised = NoRaise
    /\ results[1].samples = <<>>
    /\ stats = <<[error |-> "No samples to analyze"]>>

\* count, and the order of min, median, mean and max in a block.
BlockOrdered(b, n) ==
    /\ b.count = n
    /\ Leq(Whole(b.min), b.median) /\ Leq(b.median, Whole(b.max))
    /\ Leq(Whole(b.min), b.mean) /\ Leq(b.mean, Whole(b.max))

\* The number of samples of a kind in a sample list.
CountOf(s, kind) == Cardinality({p \in 1 .. Len(s) : s[p].test_type = kind})

KindKey(kind) == IF kind = "file" THEN "file_operations"
                 ELSE "directory_operations"

\* C16: for a non-empty sample list analyze_results returns a block for
\* the full set whose count is the length of the list, with
\* min <= median <= max, min <= mean <= max and p95 <= p99; the blocks per
\* kind are ordered the same way.
C16_StatBlockOrdered ==
    (Analysed /\ results[1].samples # <<>>)
       => /\ stats # NoValue
          /\ BlockOrdered(stats[1].overall, Len(results[1].samples))
          /\ Leq(stats[1].overall.p95, stats[1].overall.p99)
          /\ \A kind \in Kinds :
                KindKey(kind) \in DOMAIN stats[1]
                   => BlockOrdered(stats[1][KindKey(kind)],
                                   CountOf(results[1].samples, kind))

C16_Witness ==
    /\ stats # NoValue
    /\ "overall" \in DOMAIN stats[1]
    /\ stats[1].overall.count = 3
    /\ stats[1].overall.min < stats[1].overall.max
    /\ ~Leq(stats[1].overall.mean, stats[1].overall.median)
    /\ ~Leq(stats[1].overall.p99, stats[1].overall.p95)

\* C17: analyze_results returns a block per kind for exactly the kinds
\* that occur in the samples: none for a kind without sample, and for a
\* kind with samples one whose count is the number of samples of that
\* kind.
C17_KindBlocksForKindsPresent ==
    (Analysed /\ results[1].samples # <<>>)
       => /\ stats # NoValue
          /\ \A kind \in Kinds :
                IF CountOf(results[1].samples, kind) = 0
                THEN KindKey(kind) \notin DOMAIN stats[1]
                ELSE /\ KindKey(kind) \in DOMAIN stats[1]
                     /\ stats[1][KindKey(kind)].count
                           = CountOf(results[1].samples, kind)

C17_Witness ==
    /\ stats # NoValue
    /\ DOMAIN stats[1] = {"overall", "file_operations"}
    /\ stats[1].file_operations.count = 2

StatBlockShape ==
    {"count", "mean", "median", "std_dev", "min", "max", "p95", "p99"}

\* C18 (as amended): the block for the full set has the shape {count,
\* mean, median, std_dev, min, max, p95, p99}; each block per kind has the
\* shape {count, mean, median, std_dev, min, max}, without percentiles.
C18_BlockShapes ==
    (stats # NoValue /\ "error" \notin DOMAIN stats[1])
       => /\ DOMAIN stats[1].overall = StatBlockShape
          /\ \A k \in DOMAIN stats[1] \ {"overall"} :
                DOMAIN stats[1][k] = StatBlockShape \ {"p95", "p99"}

C18_Witness ==
    /\ stats # NoValue
    /\ DOMAIN stats[1] = {"overall", "file_operations", "directory_operations"}
    /\ "p95" \in DOMAIN stats[1].overall
    /\ "p95" \notin DOMAIN stats[1].directory_operations

\* C18 as stated: every block, per kind too, has the shape with p95 and
\* p99.
C18_AllBlocksSameShape ==
    (stats # NoValue /\ "error" \notin DOMAIN stats[1])
       => \A k \in DOMAIN stats[1] : DOMAIN stats[1][k] = StatBlockShape

\* C19: a block over exactly one sample, be it the full set or the samples
\* of one kind, has std_dev 0, and computing it does not raise.
C19_SingleSampleStdDevZero ==
    (Analysed /\ results[1].samples # <<>>)
       => /\ stats # NoValue
          /\ \A k \in DOMAIN stats[1] :
                stats[1][k].count = 1 => stats[1][k].std_dev = Zero

C19_Witness ==
    /\ stats # NoValue
    /\ DOMAIN stats[1] = {"overall", "file_operations", "directory_operations"}
    /\ stats[1].overall.count = 3
    /\ stats[1].overall.std_dev # Zero
    /\ stats[1].file_operations.count = 1
    /\ stats[1].file_operations.std_dev = Zero

\* C20: when save_report has written the report of a run, loading the
\* report file gives a report equal to the one saved: metadata with its
\* "unknown" sentinels, test_config, the samples in their order, summary.
C20_ReportRoundTrip ==
    pc = "analyze" => JsonLoad(reportFile[1]) = results[1]

C20_Witness ==
    /\ pc = "analyze"
    /\ results[1].metadata.version = "unknown"
    /\ Len(results[1].samples) = 2
    /\ JsonLoad(reportFile[1]).samples[2] = results[1].samples[2]

\* C21: in the metadata get_system_info returns every runtime-engine field
\* is present, and when the info lookup failed (the driver is recorded as
\* "unknown") the resource totals carry the "unknown" sentinel too.
C21_FailedLookupsCarryUnknown ==
    system_info # NoValue =>
       /\ DOMAIN system_info[1]
             = {"version", "api_version", "driver", "total_memory", "cpus"}
       /\ system_info[1].driver = "unknown"
             => /\ system_info[1].total_memory = "unknown"
                /\ system_info[1].cpus = "unknown"

\* C22: a run that is not interrupted and whose calls and clock make
\* progress comes to its end; every poll loop is left again; a trial that
\* has returned is never run again (the loop index goes up by one), a trial
\* is started only while fewer than num_samples have returned, and the run
\* that no exception aborted has compiled its results after exactly
\* num_samples trials.
C22_RunTerminates ==
    /\ <>(pc = "exited")
    /\ (pc = "poll") ~> (pc = "record")
    /\ [](pc = "exited" /\ raised = NoRaise
            => /\ results # NoValue
               /\ results[1].summary.total_samples
                     + results[1].summary.timeouts = num_samples)
    /\ [][/\ (pc = "record" /\ pc' = "loop") => i' = i + 1
          /\ (pc = "loop" /\ pc' = "poll") => (i < num_samples /\ i' = i)
          /\ (pc = "loop" /\ pc' = "save") => i = num_samples]_vars

C22_Witness ==
    /\ pc = "exited"
    /\ raised = NoRaise
    /\ num_samples = 1
    /\ results # NoValue
    /\ results[1].summary.timeouts = 1
    /\ now = timeout
    /\ timeout = MaxTimeout

\* The host artifacts a step creates or removes.
Touched == (hostFs' \ hostFs) \cup (hostFs \ hostFs')

\* C23: a trial exercises only the environment it was assigned: its index
\* is in 0..num_environments-1, the host directory it works in and the
\* container it polls are those provisioned at that index, with that
\* directory as the container's mount; the steps of the trial create and
\* remove artifacts in that directory only; and the index is the
\* environment recorded in the trial's sample.
C23_TrialStaysInItsEnvironment ==
    /\ [](pc \in {"poll", "record"}
            => /\ trial.env_idx \in 0 .. (NumEnvironments - 1)
               /\ trial.temp_dir = temp_dirs[trial.env_idx + 1]
               /\ trial.container = containers[trial.env_idx + 1]
               /\ MountedDir(trial.container) = trial.temp_dir)
    /\ [](\A k \in 1 .. Len(samples) :
             samples[k].environment \in 0 .. (NumEnvironments - 1))
    /\ [][/\ (pc \in {"loop", "poll"} /\ pc' \in {"poll", "record"})
               => \A a \in Touched : a.dir = trial'.temp_dir
          /\ (pc = "record" /\ pc' = "loop") => Touched = {}
          /\ (pc = "record" /\ pc' = "loop" /\ latency # NoValue)
               => samples'[Len(samples')].environment = trial.env_idx]_vars

C23_Witness ==
    /\ pc = "record"
    /\ latency # NoValue
    /\ trial.env_idx = 2
    /\ trial.container = 2
    /\ \E a \in hostFs : a.dir = 0

\* C24: a trial that returns, with a latency or with None, File or
\* Directory, has tried to delete the host artifact it created, and when
\* that deletion succeeded the artifact no longer exists at the trial
\* boundary.
C24_NoLeftoverArtifact ==
    pc = "record"
       => /\ trial.cleanup \in {"removed", "failed"}
          /\ trial.cleanup = "removed" => HostArtifact \notin hostFs
          /\ trial.cleanup = "failed" => latency = NoValue

C24_Witness ==
    /\ pc = "record"
    /\ trial.test_type = "directory"
    /\ latency # NoValue
    /\ trial.cleanup = "removed"
    /\ i = 1
    /\ hostFs = {}

====
